---- MODULE Spec2Model ----
(***************************************************************************)
(* A model of the secondary index of package kv (src/kv/index.go): an      *)
(* Index keeps foreignKey/primaryKey entries in an index bucket beside a   *)
(* source bucket, and offers Insert, Delete, Walk, Populate and Verify.    *)
(*                                                                         *)
(* Byte slices are sequences of byte values.  The store (kv.Store, Tx,     *)
(* Bucket, ForwardCursor) is declared in kv/store.go, which is not part of *)
(* the sources at hand: it is modelled from section 6 of spec.md.          *)
(***************************************************************************)
EXTENDS Integers, Sequences, FiniteSets, TLC

\* the separator byte '/' of indexKey and indexKeyParts
Slash == 47

\* at most this many entries in the index bucket (the guard of Insert and of
\* PopulateStart)
MaxEntries == 3

\* primary keys "b", "a/b"
PKs == { <<98>>, <<97, Slash, 98>> }
\* foreign keys "u", "u1", "u/a": "u" is a byte prefix of "u1", and the
\* pairs ("u", "a/b") and ("u/a", "b") both read "u/a/b" once joined
FKs == { <<117>>, <<117, 49>>, <<117, Slash, 97>> }

\* a source value: a record body naming its owner, or bytes the mapping's
\* IndexSourceOn cannot decode
Malformed == << "garbage" >>
Body(fk) == << "auth", fk >>
Values == { Body(fk) : fk \in FKs } \cup { Malformed }

\* values of populateBatchSize given to WithPopulateBatchSize
BatchSizes == { 1, 2 }

VARIABLES
    source,             \* the source bucket: primary key -> value
    index,              \* the index bucket: composite key -> primary key
    srcExists,          \* the source bucket has been created
    idxExists,          \* the index bucket has been created
    canRead,            \* Index.canRead
    populateBatchSize,  \* Index.populateBatchSize
    pop,                \* the Populate call under way, or its outcome
    res                 \* what the last Walk or Verify returned

vars == << source, index, srcExists, idxExists, canRead, populateBatchSize, pop, res >>

----------------------------------------------------------------------------
\* errors

Err(kind, fk, pk) == [kind |-> kind, fk |-> fk, pk |-> pk]
Nil == Err("nil", <<>>, <<>>)
ErrBucketNotFound == Err("ErrBucketNotFound", <<>>, <<>>)
ErrStore == Err("StoreError", <<>>, <<>>)
\* the errors of a failed cursor, of a failed Bucket.Get (no not-found) and of
\* a failed ForwardCursor.Close
ErrCursor == Err("CursorError", <<>>, <<>>)
ErrGet == Err("GetError", <<>>, <<>>)
ErrClose == Err("CloseError", <<>>, <<>>)
ErrDerivation == Err("DerivationError", <<>>, <<>>)
ErrMalformedKey == Err("malformed index key", <<>>, <<>>)
\* fmt.Errorf("for key %v indexed by %v: %w", pk, fk, ErrKeyNotFound)
ErrKeyNotFoundFor(fk, pk) == Err("ErrKeyNotFound", fk, pk)

----------------------------------------------------------------------------
\* byte slices

RECURSIVE LessBytes(_, _)
\* bytes.Compare(a, b) < 0: the order of the store's keys
LessBytes(a, b) ==
    IF a = <<>> THEN b # <<>>
    ELSE IF b = <<>> THEN FALSE
    ELSE IF a[1] # b[1] THEN a[1] < b[1]
    ELSE LessBytes(Tail(a), Tail(b))

HasPrefix(k, p) == Len(k) >= Len(p) /\ SubSeq(k, 1, Len(p)) = p

\* the least i with s[i] = Slash, or 0
FirstSlash(s) ==
    IF \E i \in 1..Len(s) : s[i] = Slash
    THEN CHOOSE i \in 1..Len(s) : s[i] = Slash /\ \A j \in 1..(i - 1) : s[j] # Slash
    ELSE 0

\* indexKey: foreignKey, '/', primaryKey
indexKey(foreignKey, primaryKey) == foreignKey \o << Slash >> \o primaryKey

\* indexKeyParts: bytes.SplitN(indexKey, "/", 2)
indexKeyParts(key) ==
    LET i == FirstSlash(key) IN
    IF i = 0
    THEN [fk |-> <<>>, pk |-> <<>>, err |-> ErrMalformedKey]
    ELSE [fk |-> SubSeq(key, 1, i - 1), pk |-> SubSeq(key, i + 1, Len(key)), err |-> Nil]

\* IndexMapping.IndexSourceOn, as in the type's own illustration: decode the
\* value and return the owner it names
IndexSourceOn(value) ==
    IF value[1] = "auth"
    THEN [fk |-> value[2], err |-> Nil]
    ELSE [fk |-> <<>>, err |-> ErrDerivation]

----------------------------------------------------------------------------
\* the store

RECURSIVE SortKeys(_)
\* the keys of a set in ascending byte order
SortKeys(S) ==
    IF S = {} THEN <<>>
    ELSE LET m == CHOOSE k \in S : \A o \in S : o = k \/ LessBytes(k, o)
         IN << m >> \o SortKeys(S \ {m})

\* Bucket.ForwardCursor(seek, WithCursorPrefix(prefix)): the rows the cursor's
\* Next returns, ascending from seek, restricted to the prefix
ForwardCursor(bucket, seek, prefix) ==
    LET keys == SortKeys({ k \in DOMAIN bucket : ~LessBytes(k, seek) /\ HasPrefix(k, prefix) })
    IN [i \in 1..Len(keys) |-> << keys[i], bucket[keys[i]] >>]

\* Bucket.Get: the value, or not found (found false), or, with hard true, an
\* error that is no not-found
Get(bucket, key) ==
    IF key \in DOMAIN bucket
    THEN [value |-> bucket[key], found |-> TRUE, hard |-> FALSE]
    ELSE [value |-> <<>>, found |-> FALSE, hard |-> FALSE]

\* a Bucket.Get that fails
GetFailed == [value |-> <<>>, found |-> FALSE, hard |-> TRUE]

\* Bucket.Put
Put(bucket, key, value) ==
    [k \in DOMAIN bucket \cup {key} |-> IF k = key THEN value ELSE bucket[k]]

\* Bucket.Delete
Remove(bucket, key) == [k \in DOMAIN bucket \ {key} |-> bucket[k]]

EmptyBucket == << >>

----------------------------------------------------------------------------
\* the callbacks handed to indexWalk and missingIndexWalk.  A callback is named
\* by the operation that passes it; what it does to the caller's variables is
\* returned as an event, in call order.

Event(ev, a, b) == [ev |-> ev, a |-> a, b |-> b]
Step(events, err) == [events |-> events, err |-> err]

\* visit(primaryKey, sourceValue)
visitFn(cb, k, v) ==
    IF cb = "Walk"
    THEN \* the caller's VisitFunc: it is handed the pair and returns nil
         Step(<< Event("visit", k, v) >>, Nil)
    ELSE \* Verify: derive the foreign key from the value, diff.addToPresent(fk, k)
         LET d == IndexSourceOn(v) IN
         IF d.err # Nil THEN Step(<<>>, d.err)
         ELSE Step(<< Event("present", d.fk, k) >>, Nil)

\* notFound(from, to)
notFoundFn(cb, from, to) ==
    CASE cb = "Walk" ->
            \* fail iteration when key not found for item in index
            Step(<<>>, ErrKeyNotFoundFor(from, to))
      [] cb = "VerifyIndex" ->
            \* diff.addMissingSource(fk, pk), continue iterating over index
            Step(<< Event("missingSource", from, to) >>, Nil)
      [] cb = "Populate" ->
            \* missing = append(missing, [2][]byte{fk, pk})
            Step(<< Event("missing", from, to) >>, Nil)
      [] OTHER ->
            \* Verify over the source: split the expected key, diff.addMissingIndex(fk, pk)
            LET p == indexKeyParts(from) IN
            IF p.err # Nil THEN Step(<<>>, p.err)
            ELSE Step(<< Event("missingIndex", p.fk, p.pk) >>, Nil)

\* the mapping function indexWalk hands to crossReference: look the entry's
\* value (the primary key) up in the source bucket
indexWalkKey(k, v) == [toK |-> v, err |-> Nil]

\* the value function of indexWalk
indexWalkVal(cb, k, v, toK, got) ==
    IF got.hard THEN Step(<<>>, ErrGet)
    ELSE IF ~got.found
    THEN LET p == indexKeyParts(k) IN
         IF p.err # Nil THEN Step(<<>>, p.err)
         ELSE notFoundFn(cb, p.fk, p.pk)
    ELSE visitFn(cb, v, got.value)

\* the mapping function missingIndexWalk hands to crossReference: derive the
\* foreign key of the record and look its expected composite key up in the index
missingIndexWalkKey(k, v) ==
    LET d == IndexSourceOn(v) IN
    IF d.err # Nil THEN [toK |-> <<>>, err |-> d.err]
    ELSE [toK |-> indexKey(d.fk, k), err |-> Nil]

\* the value function of missingIndexWalk
missingIndexWalkVal(cb, k, v, toK, got) ==
    IF got.hard THEN Step(<<>>, ErrGet)
    ELSE IF ~got.found THEN notFoundFn(cb, toK, k)
    ELSE Step(<<>>, Nil)

\* what the store does during one crossReference.  next: the call of
\* cursor.Next that fails (it returns nil, and cursor.Err the error), 0 for
\* none; get: the row whose bucket.Get fails, 0 for none; close: cursor.Close
\* fails
IO(next, get, close) == [next |-> next, get |-> get, close |-> close]
NoFault == IO(0, 0, FALSE)

\* events: what the callbacks did; err: the error returned; cursor: the calls
\* made on the cursor, in order
Join(events, err, cursor) == [events |-> events, err |-> err, cursor |-> cursor]

\* fn(k, v): the mapping function fn names, that of indexWalk or that of
\* missingIndexWalk
mappingFunc(fn, k, v) ==
    IF fn = "indexWalk" THEN indexWalkKey(k, v) ELSE missingIndexWalkKey(k, v)

\* valFn(value, err): the value function the mapping function returned
valFn(fn, cb, k, v, toK, got) ==
    IF fn = "indexWalk"
    THEN indexWalkVal(cb, k, v, toK, got)
    ELSE missingIndexWalkVal(cb, k, v, toK, got)

\* one more pass of the loop, its callbacks' events, before the passes of rest
Pass(events, rest) ==
    Join(events \o rest.events, rest.err, << "Next" >> \o rest.cursor)

RECURSIVE crossReferenceLoop(_, _, _, _, _, _)

\* row i once the value function has returned c: return its error, or go on
\* to the next row
crossReferenceValue(rows, i, bucket, fn, cb, io, c) ==
    IF c.err # Nil
    THEN Join(c.events, c.err, << "Next" >>)
    ELSE Pass(c.events, crossReferenceLoop(rows, i + 1, bucket, fn, cb, io))

\* row i once the mapping function has returned m: return its error, or look
\* the key up in the bucket and hand what Get returns to the value function
crossReferenceRow(rows, i, bucket, fn, cb, io, m) ==
    IF m.err # Nil
    THEN Join(<<>>, m.err, << "Next" >>)
    ELSE crossReferenceValue(rows, i, bucket, fn, cb, io,
             valFn(fn, cb, rows[i][1], rows[i][2], m.toK,
                   IF io.get = i THEN GetFailed ELSE Get(bucket, m.toK)))

\* the loop of crossReference from row i on and the return that ends it: rows
\* are what the cursor holds; when Next returns nil the loop ends and
\* cursor.Err() is returned
crossReferenceLoop(rows, i, bucket, fn, cb, io) ==
    IF i > Len(rows) \/ io.next = i
    THEN Join(<<>>, IF io.next = i THEN ErrCursor ELSE Nil, << "Next", "Err" >>)
    ELSE crossReferenceRow(rows, i, bucket, fn, cb, io,
                           mappingFunc(fn, rows[i][1], rows[i][2]))

\* what crossReference returns, loop being what its loop returned and cerr
\* what cursor.Close returned, with the error of Close put first
DeferredCloseFirst(loop, cerr) == IF cerr # Nil THEN cerr ELSE loop

\* what crossReference returns: the deferred function sets err to the error
\* of Close when err is nil
Deferred(loop, cerr) == IF cerr # Nil /\ loop = Nil THEN cerr ELSE loop

\* cursor.Close()
Close(io) == IF io.close THEN ErrClose ELSE Nil

\* a return that closes the cursor only where the loop ended without an error
ReturnNoDefer(l, cerr) ==
    IF l.err # Nil
    THEN [events |-> l.events, err |-> l.err, cursor |-> l.cursor,
          loop |-> l.err, cerr |-> Nil]
    ELSE [events |-> l.events, err |-> cerr,
          cursor |-> Append(l.cursor, "Close"), loop |-> l.err, cerr |-> cerr]

\* the return of crossReference: l is what the loop returned and cerr what
\* the deferred cursor.Close did; loop and cerr keep the two
Return(l, cerr) ==
    [events |-> l.events, err |-> Deferred(l.err, cerr),
     cursor |-> Append(l.cursor, "Close"), loop |-> l.err, cerr |-> cerr]

\* crossReference: the loop, then the deferred cursor.Close
crossReference(rows, bucket, fn, cb, io) ==
    Return(crossReferenceLoop(rows, 1, bucket, fn, cb, io), Close(io))

\* indexWalk and missingIndexWalk, over a store that does not fail
indexWalk(indexCursor, sourceBucket, cb) ==
    crossReference(indexCursor, sourceBucket, "indexWalk", cb, NoFault)

missingIndexWalk(srcCursor, indexBucket, cb) ==
    crossReference(srcCursor, indexBucket, "missingIndexWalk", cb, NoFault)

----------------------------------------------------------------------------
\* Walk

WalkResult(fk, visited, err, calls) ==
    [op |-> "Walk", fk |-> fk, visited |-> visited, err |-> err, calls |-> calls]

\* the prefix Walk restricts the index cursor to
WalkPrefix(foreignKey) == foreignKey

\* Index.Walk past its canRead test, in a read transaction; calls counts the
\* store accesses made (bucket lookups, the cursor, and one Get per row read)
WalkRead(foreignKey) ==
    IF ~srcExists THEN WalkResult(foreignKey, <<>>, ErrBucketNotFound, 1)
    ELSE IF ~idxExists THEN WalkResult(foreignKey, <<>>, ErrBucketNotFound, 2)
    ELSE LET cursor == ForwardCursor(index, foreignKey, WalkPrefix(foreignKey))
             r == indexWalk(cursor, source, "Walk")
             reads == IF r.err = Nil THEN Len(cursor) ELSE Len(r.events) + 1
         IN  WalkResult(foreignKey, r.events, r.err, 3 + reads)

\* a Walk that does not look at canRead
WalkUngated(foreignKey) == WalkRead(foreignKey)

\* Index.Walk: skip walking while the index is used purely to write
Walk(foreignKey) ==
    IF ~canRead THEN WalkResult(foreignKey, <<>>, Nil, 0)
    ELSE WalkRead(foreignKey)

----------------------------------------------------------------------------
\* Verify

EmptyDiff == [PresentInIndex |-> << >>, MissingFromIndex |-> << >>, MissingFromSource |-> << >>]

\* append pk to m[fk], as addToPresent, addMissingSource and addMissingIndex do
AddTo(m, fk, pk) ==
    [k \in DOMAIN m \cup {fk} |->
        IF k = fk THEN Append(IF fk \in DOMAIN m THEN m[fk] ELSE <<>>, pk) ELSE m[k]]

RECURSIVE ApplyEvents(_, _)
\* the IndexDiff after the callbacks of Verify have run, in order
ApplyEvents(diff, events) ==
    IF events = <<>> THEN diff
    ELSE LET e == events[1]
             d == CASE e.ev = "present" ->
                         [diff EXCEPT !.PresentInIndex = AddTo(@, e.a, e.b)]
                    [] e.ev = "missingSource" ->
                         [diff EXCEPT !.MissingFromSource = AddTo(@, e.a, e.b)]
                    [] OTHER ->
                         [diff EXCEPT !.MissingFromIndex = AddTo(@, e.a, e.b)]
         IN  ApplyEvents(d, Tail(events))

\* IndexDiff.Corrupt; the order of the returned slice is that of a map iteration
Corrupt(diff) ==
    { fk \in DOMAIN diff.MissingFromIndex : fk \in DOMAIN diff.PresentInIndex }

VerifyResult(diff, err) == [op |-> "Verify", diff |-> diff, err |-> err]

\* the stores's failures a call may meet
Faults == { "none", "sourceCursor" }

\* Index.Verify in a read transaction; with fault "sourceCursor" the store
\* fails sourceBucket.ForwardCursor
Verify(fault) ==
    IF ~srcExists THEN VerifyResult(EmptyDiff, ErrBucketNotFound)
    ELSE IF ~idxExists THEN VerifyResult(EmptyDiff, ErrBucketNotFound)
    ELSE LET a == indexWalk(ForwardCursor(index, <<>>, <<>>), source, "VerifyIndex")
             diffA == ApplyEvents(EmptyDiff, a.events)
         IN  IF a.err # Nil THEN VerifyResult(diffA, a.err)
             ELSE IF fault = "sourceCursor" THEN VerifyResult(diffA, ErrStore)
             ELSE LET b == missingIndexWalk(ForwardCursor(source, <<>>, <<>>), index, "VerifySource")
                  IN  VerifyResult(ApplyEvents(diffA, b.events), b.err)

----------------------------------------------------------------------------
\* Populate.  Phase 1 is one read transaction; every batch of phase 2 is a
\* write transaction of its own, and one step of the model.

\* pc: "idle" (no call), "batch" (phase 2 under way) or "done" (returned);
\* missing, n, err: the variables of Populate.  The other fields are records of
\* the run kept for the properties: idx0 the index bucket when the call began,
\* all the missing list as phase 1 collected it, k the write transactions
\* begun, committed the entries of the committed ones, prev how the call
\* before this one ended when no other operation came between.
PopState(pc, missing, n, err, idx0, all, k, committed, prev) ==
    [pc |-> pc, missing |-> missing, n |-> n, err |-> err, idx0 |-> idx0,
     all |-> all, k |-> k, committed |-> committed, prev |-> prev]

NoPrev == [how |-> "none", rest |-> <<>>, n |-> 0, k |-> 0]

PopIdle == PopState("idle", <<>>, 0, Nil, <<>>, <<>>, 0, 0, NoPrev)

NoRes == [op |-> "none"]

\* the (key, value) pairs the Populate callback appended to missing
Pairs(events) == [i \in 1..Len(events) |-> << events[i].a, events[i].b >>]

\* phase 1 of Populate: the missing list, or the error of the read transaction
PopulateScan(srcEx, idxEx) ==
    IF ~srcEx THEN [missing |-> <<>>, err |-> ErrBucketNotFound]
    ELSE IF ~idxEx THEN [missing |-> <<>>, err |-> ErrBucketNotFound]
    ELSE LET r == missingIndexWalk(ForwardCursor(source, <<>>, <<>>), index, "Populate")
         IN  [missing |-> Pairs(r.events), err |-> r.err]

\* how the call that p records ended (how, its count n, its transactions k)
\* and the part of its missing list no committed transaction wrote
PrevOf(p) ==
    IF p.pc # "done" THEN NoPrev
    ELSE [how |-> IF p.err = Nil THEN "ok"
                  ELSE IF p.k > 0 THEN "batchFailed" ELSE "scanFailed",
          rest |-> SubSeq(p.all, p.committed + 1, Len(p.all)),
          n |-> p.n,
          k |-> p.k]

\* a Populate that goes on to phase 2 with what phase 1 had collected when
\* its read transaction failed
PopulateBeginSkipping(p, srcEx, idxEx) ==
    LET s == PopulateScan(srcEx, idxEx)
    IN  PopState(IF s.missing = <<>> THEN "done" ELSE "batch",
                 s.missing, 0, Nil, index, s.missing, 0, 0, PrevOf(p))

\* Populate up to its first write transaction
PopulateBegin(p, srcEx, idxEx) ==
    LET s == PopulateScan(srcEx, idxEx)
    IN  IF s.err # Nil
        THEN PopState("done", s.missing, 0, s.err, index, <<>>, 0, 0, PrevOf(p))
        ELSE PopState(IF s.missing = <<>> THEN "done" ELSE "batch",
                      s.missing, 0, Nil, index, s.missing, 0, 0, PrevOf(p))

\* a batch that takes all that is missing
BatchEndAll(size, missing) == Len(missing)

\* end: the batch's length
BatchEnd(size, missing) == IF size > Len(missing) THEN Len(missing) ELSE size

RECURSIVE PutAllButLast(_, _)
\* the puts of one batch with the loop ending one pair early
PutAllButLast(bucket, batch) ==
    IF Len(batch) <= 1 THEN bucket
    ELSE PutAllButLast(Put(bucket, batch[1][1], batch[1][2]), Tail(batch))

RECURSIVE PutAll(_, _)
\* the puts of one batch, in order
PutAll(bucket, batch) ==
    IF batch = <<>> THEN bucket
    ELSE PutAll(Put(bucket, batch[1][1], batch[1][2]), Tail(batch))

\* n set to the puts of the last write transaction instead of counting on
CountLast(n, puts) == puts

\* n after a write transaction that made puts of its batch's puts
CountAfter(n, puts) == n + puts

PopulateStart ==
    /\ pop.pc # "batch"
    /\ Cardinality(DOMAIN index) + Len(PopulateScan(srcExists, idxExists).missing) <= MaxEntries
    /\ pop' = PopulateBegin(pop, srcExists, idxExists)
    /\ res' = NoRes
    /\ UNCHANGED << source, index, srcExists, idxExists, canRead, populateBatchSize >>

\* at most this many write transactions in one Populate (more than the
\* entries a call may find missing)
MaxTx == 5

\* one write transaction of phase 2 commits
PopulateBatch ==
    /\ pop.pc = "batch"
    /\ pop.k < MaxTx
    /\ BatchEnd(populateBatchSize, pop.missing) >= 0
    /\ LET end == BatchEnd(populateBatchSize, pop.missing)
           batch == SubSeq(pop.missing, 1, end)
           rest == SubSeq(pop.missing, end + 1, Len(pop.missing))
       IN  /\ index' = PutAll(index, batch)
           /\ idxExists' = TRUE
           /\ pop' = [pop EXCEPT !.pc = IF rest = <<>> THEN "done" ELSE "batch",
                                 !.missing = rest,
                                 !.n = CountAfter(@, Len(batch)),
                                 !.k = @ + 1,
                                 !.committed = @ + Len(batch)]
    /\ UNCHANGED << source, srcExists, canRead, populateBatchSize, res >>

\* one write transaction of phase 2 fails: put number puts + 1 fails, or, with
\* every put made, the commit does; the store rolls the transaction back
PopulateBatchFail ==
    /\ pop.pc = "batch"
    /\ pop.k < MaxTx
    /\ BatchEnd(populateBatchSize, pop.missing) >= 0
    /\ LET end == BatchEnd(populateBatchSize, pop.missing)
           batch == SubSeq(pop.missing, 1, end)
           rest == SubSeq(pop.missing, end + 1, Len(pop.missing))
       IN  \E puts \in 0..Len(batch) :
              pop' = [pop EXCEPT !.pc = "done",
                                 !.missing = rest,
                                 !.n = CountAfter(@, puts),
                                 !.err = ErrStore,
                                 !.k = @ + 1]
    /\ UNCHANGED << source, index, srcExists, idxExists, canRead, populateBatchSize, res >>

\* missing[:end] with a negative end: the slice expression panics, and
\* Populate does not return
PopulatePanic ==
    /\ pop.pc = "batch"
    /\ BatchEnd(populateBatchSize, pop.missing) < 0
    /\ pop' = [pop EXCEPT !.pc = "panic"]
    /\ UNCHANGED << source, index, srcExists, idxExists, canRead, populateBatchSize, res >>

----------------------------------------------------------------------------
\* the other operations; each runs while no Populate is between transactions

Quiet == pop.pc # "batch"

\* an Insert that stores the foreign key as the entry's value
InsertForeignKey(foreignKey, primaryKey) ==
    /\ Quiet
    /\ LET newKey == indexKey(foreignKey, primaryKey) IN
       /\ newKey \in DOMAIN index \/ Cardinality(DOMAIN index) < MaxEntries
       /\ index' = Put(index, newKey, foreignKey)
    /\ idxExists' = TRUE
    /\ pop' = PopIdle
    /\ res' = NoRes
    /\ UNCHANGED << source, srcExists, canRead, populateBatchSize >>

\* Index.Insert in a write transaction that commits
Insert(foreignKey, primaryKey) ==
    /\ Quiet
    /\ LET newKey == indexKey(foreignKey, primaryKey) IN
       /\ newKey \in DOMAIN index \/ Cardinality(DOMAIN index) < MaxEntries
       /\ index' = Put(index, newKey, primaryKey)
    /\ idxExists' = TRUE
    /\ pop' = PopIdle
    /\ res' = NoRes
    /\ UNCHANGED << source, srcExists, canRead, populateBatchSize >>

\* Index.Delete in a write transaction that commits
Delete(foreignKey, primaryKey) ==
    /\ Quiet
    /\ index' = Remove(index, indexKey(foreignKey, primaryKey))
    /\ idxExists' = TRUE
    /\ pop' = PopIdle
    /\ res' = NoRes
    /\ UNCHANGED << source, srcExists, canRead, populateBatchSize >>

\* the caller writes a record to the source bucket
PutSource(primaryKey, value) ==
    /\ Quiet
    /\ source' = Put(source, primaryKey, value)
    /\ srcExists' = TRUE
    /\ pop' = PopIdle
    /\ res' = NoRes
    /\ UNCHANGED << index, idxExists, canRead, populateBatchSize >>

\* the caller deletes a record of the source bucket
DeleteSource(primaryKey) ==
    /\ Quiet
    /\ primaryKey \in DOMAIN source
    /\ source' = Remove(source, primaryKey)
    /\ pop' = PopIdle
    /\ res' = NoRes
    /\ UNCHANGED << index, srcExists, idxExists, canRead, populateBatchSize >>

\* Index.Walk in a read transaction
DoWalk(foreignKey) ==
    /\ Quiet
    /\ res' = Walk(foreignKey)
    /\ pop' = PopIdle
    /\ UNCHANGED << source, index, srcExists, idxExists, canRead, populateBatchSize >>

\* a Verify that deletes the index entries it finds without a source record
DoVerifyRepairing(fault) ==
    /\ Quiet
    /\ res' = Verify(fault)
    /\ index' = [k \in { key \in DOMAIN index : index[key] \in DOMAIN source } |-> index[k]]
    /\ pop' = PopIdle
    /\ UNCHANGED << source, srcExists, idxExists, canRead, populateBatchSize >>

\* Index.Verify in a read transaction
DoVerify(fault) ==
    /\ Quiet
    /\ res' = Verify(fault)
    /\ pop' = PopIdle
    /\ UNCHANGED << source, index, srcExists, idxExists, canRead, populateBatchSize >>

\* WithIndexReadPathEnabled
WithIndexReadPathEnabled ==
    /\ Quiet
    /\ ~canRead
    /\ canRead' = TRUE
    /\ pop' = PopIdle
    /\ res' = NoRes
    /\ UNCHANGED << source, index, srcExists, idxExists, populateBatchSize >>

----------------------------------------------------------------------------
\* Initialize

\* the store handed to Initialize: one that is no IndexPopulatorStore, or one
\* whose AutoPopulateIndex reports false, or true
Capabilities == { "absent", "false", "true" }

\* a store taken for auto-populating whatever it is
AutoPopulateAlways(capability) == TRUE

\* store, ok := store.(IndexPopulatorStore); ok && store.AutoPopulateIndex()
AutoPopulateIndex(capability) == capability = "true"

\* populate: Initialize went on to call Populate, whose error it returns;
\* err: what it returned otherwise; created: its transaction made the index
\* bucket
InitializeResult(populate, err, created) ==
    [op |-> "Initialize", populate |-> populate, err |-> err, created |-> created]

\* what the Initialize recorded in r returns, p being its Populate once that
\* has returned
InitializeReturns(r, p) == IF r.populate THEN p.err ELSE r.err

\* Index.Initialize: the write transaction that looks the index bucket up, and
\* with it phase 1 of the Populate that follows; with fault "update" the
\* store fails the transaction
Initialize(capability, fault) ==
    /\ Quiet
    /\ IF fault = "update"
       THEN /\ res' = InitializeResult(FALSE, ErrStore, FALSE)
            /\ pop' = PopIdle
            /\ UNCHANGED idxExists
       ELSE /\ idxExists' = TRUE
            /\ IF AutoPopulateIndex(capability)
               THEN /\ Cardinality(DOMAIN index)
                          + Len(PopulateScan(srcExists, TRUE).missing) <= MaxEntries
                    /\ pop' = PopulateBegin(pop, srcExists, TRUE)
                    /\ res' = InitializeResult(TRUE, Nil, ~idxExists)
               ELSE /\ pop' = PopIdle
                    /\ res' = InitializeResult(FALSE, Nil, ~idxExists)
    /\ UNCHANGED << source, index, srcExists, canRead, populateBatchSize >>

----------------------------------------------------------------------------

\* NewIndex over an empty store; WithPopulateBatchSize may have been given
Init ==
    /\ source = EmptyBucket
    /\ index = EmptyBucket
    /\ srcExists = FALSE
    /\ idxExists = FALSE
    /\ canRead = FALSE
    /\ populateBatchSize \in BatchSizes
    /\ pop = PopIdle
    /\ res = NoRes

Next ==
    \/ \E fk \in FKs, pk \in PKs : Insert(fk, pk)
    \/ \E fk \in FKs, pk \in PKs : Delete(fk, pk)
    \/ \E pk \in PKs, v \in Values : PutSource(pk, v)
    \/ \E pk \in PKs : DeleteSource(pk)
    \/ \E fk \in FKs : DoWalk(fk)
    \/ \E f \in Faults : DoVerify(f)
    \/ WithIndexReadPathEnabled
    \/ \E c \in Capabilities, f \in { "none", "update" } : Initialize(c, f)
    \/ PopulateStart
    \/ PopulateBatch
    \/ PopulateBatchFail

Spec == Init /\ [][Next]_vars

----------------------------------------------------------------------------
\* the composite key by itself: indexKey and indexKeyParts applied to byte
\* slices of at most KeyLen bytes, the separator among them

KeyLen == 2
KeyBytes == { Slash, 97, 98 }
Keys == UNION { [1..n -> KeyBytes] : n \in 0..KeyLen }

\* newKey, err := indexKey(foreignKey, primaryKey)
DoIndexKey(foreignKey, primaryKey) ==
    /\ res' = [op |-> "indexKey", fk |-> foreignKey, pk |-> primaryKey,
               key |-> indexKey(foreignKey, primaryKey)]
    /\ UNCHANGED << source, index, srcExists, idxExists, canRead, populateBatchSize, pop >>

\* fk, pk, err := indexKeyParts(newKey)
DoIndexKeyParts ==
    /\ res.op = "indexKey"
    /\ res' = [op |-> "indexKeyParts", fk |-> res.fk, pk |-> res.pk, key |-> res.key,
               parts |-> indexKeyParts(res.key)]
    /\ UNCHANGED << source, index, srcExists, idxExists, canRead, populateBatchSize, pop >>

NextKey ==
    \/ \E fk \in Keys, pk \in Keys : DoIndexKey(fk, pk)
    \/ DoIndexKeyParts

SpecKey == Init /\ [][NextKey]_vars

----------------------------------------------------------------------------
\* crossReference by itself: one call over a store that may fail, with either
\* mapping function and the callbacks of each operation, the two buckets
\* holding what Insert and the caller may have put there

\* at most this many entries in the index bucket
MaxRows == 2

SourceBuckets == UNION { [S -> Values] : S \in SUBSET PKs }

IndexBuckets ==
    LET AllKeys == { indexKey(fk, pk) : fk \in FKs, pk \in PKs }
        Built(b) == \A key \in DOMAIN b : \E fk \in FKs : key = indexKey(fk, b[key])
    IN  UNION { { b \in [K -> PKs] : Built(b) } :
                  K \in { K \in SUBSET AllKeys : Cardinality(K) <= MaxRows } }

\* a mapping function with the callbacks of an operation that uses it
Joins ==
    { << "indexWalk", "Walk" >>, << "indexWalk", "VerifyIndex" >>,
      << "missingIndexWalk", "Populate" >>, << "missingIndexWalk", "VerifySource" >> }

\* the failures of the store: of a call of Next up to the one after the last
\* row, of the Get of a row, of Close
IOs == { IO(n, g, c) : n \in 0..(MaxRows + 1), g \in 0..MaxRows, c \in BOOLEAN }

InitJoin ==
    /\ source \in SourceBuckets
    /\ index \in IndexBuckets
    /\ srcExists = TRUE
    /\ idxExists = TRUE
    /\ canRead = TRUE
    /\ populateBatchSize = 1
    /\ pop = PopIdle
    /\ res = NoRes

\* err := crossReference(cursor, bucket, fn): the cursor over all of the
\* index bucket and the source bucket for indexWalk, the cursor over all of
\* the source bucket and the index bucket for missingIndexWalk
DoCrossReference(join, io) ==
    LET fromIndex == join[1] = "indexWalk"
        rows == ForwardCursor(IF fromIndex THEN index ELSE source, <<>>, <<>>)
    IN  /\ res = NoRes
        /\ res' = [op |-> "crossReference", fn |-> join[1], rows |-> Len(rows), io |-> io,
                   out |-> crossReference(rows, IF fromIndex THEN source ELSE index,
                                          join[1], join[2], io)]
        /\ UNCHANGED << source, index, srcExists, idxExists, canRead, populateBatchSize, pop >>

NextJoin == \E join \in Joins, io \in IOs : DoCrossReference(join, io)

SpecJoin == InitJoin /\ [][NextJoin]_vars

----------------------------------------------------------------------------
\* Populate by itself, over source buckets of up to three records ("a/b", "b",
\* "c") that derive a foreign key and an index bucket that holds no entry

BatchSources ==
    UNION { [S -> { Body(fk) : fk \in FKs }] : S \in SUBSET (PKs \cup { << 99 >> }) }

InitBatch ==
    /\ source \in BatchSources
    /\ index = EmptyBucket
    /\ srcExists = TRUE
    /\ idxExists = TRUE
    /\ canRead = FALSE
    /\ populateBatchSize \in BatchSizes
    /\ pop = PopIdle
    /\ res = NoRes

NextBatch ==
    \/ PopulateStart
    \/ PopulateBatch
    \/ PopulateBatchFail

SpecBatch == InitBatch /\ [][NextBatch]_vars

----------------------------------------------------------------------------
\* Populate beside live traffic: the source bucket holds records written
\* before there was an index; from then on the caller pairs every write of a
\* record with the Insert and Delete that match it, in one write transaction,
\* and such transactions commit between the transactions of a Populate.  The
\* foreign keys are those without '/'.

ConcFKs == { fk \in FKs : FirstSlash(fk) = 0 }

ConcSources == UNION { [S -> { Body(fk) : fk \in ConcFKs }] : S \in SUBSET PKs }

InitConc ==
    /\ source \in ConcSources
    /\ index = EmptyBucket
    /\ srcExists = TRUE
    /\ idxExists = TRUE
    /\ canRead = FALSE
    /\ populateBatchSize \in BatchSizes
    /\ pop = PopIdle
    /\ res = NoRes

\* one write transaction of the caller: Index.Delete for the foreign key the
\* record named until now, if there is such a record, the Put of the record
\* naming foreignKey, and Index.Insert for foreignKey
LivePut(primaryKey, foreignKey) ==
    /\ LET deleted ==
               IF primaryKey \in DOMAIN source
               THEN Remove(index, indexKey(IndexSourceOn(source[primaryKey]).fk, primaryKey))
               ELSE index
       IN  index' = Put(deleted, indexKey(foreignKey, primaryKey), primaryKey)
    /\ source' = Put(source, primaryKey, Body(foreignKey))
    /\ UNCHANGED << srcExists, idxExists, canRead, populateBatchSize, pop, res >>

\* one write transaction of the caller: the Delete of a record and
\* Index.Delete for the foreign key it named
LiveDelete(primaryKey) ==
    /\ primaryKey \in DOMAIN source
    /\ index' = Remove(index, indexKey(IndexSourceOn(source[primaryKey]).fk, primaryKey))
    /\ source' = Remove(source, primaryKey)
    /\ UNCHANGED << srcExists, idxExists, canRead, populateBatchSize, pop, res >>

NextConc ==
    \/ \E pk \in PKs, fk \in ConcFKs : LivePut(pk, fk)
    \/ \E pk \in PKs : LiveDelete(pk)
    \/ PopulateStart
    \/ PopulateBatch
    \/ PopulateBatchFail

SpecConc == InitConc /\ [][NextConc]_vars

----------------------------------------------------------------------------
\* Populate with any batch size WithPopulateBatchSize takes: it stores the
\* int it is given, whatever its sign

AnyBatchSizes == { -1, 0, 1, 2 }

\* NewIndex with WithPopulateBatchSize(n), over a store that holds records
\* and no entry
InitSize ==
    /\ source \in UNION { [S -> { Body(fk) : fk \in FKs }] : S \in SUBSET PKs }
    /\ index = EmptyBucket
    /\ srcExists = TRUE
    /\ idxExists = TRUE
    /\ canRead = FALSE
    /\ populateBatchSize \in AnyBatchSizes
    /\ pop = PopIdle
    /\ res = NoRes

NextSize ==
    \/ PopulateStart
    \/ PopulateBatch
    \/ PopulateBatchFail
    \/ PopulatePanic

SpecSize == InitSize /\ [][NextSize]_vars

----------------------------------------------------------------------------
\* the cursors of Walk, Verify and Populate: how many each call opens with
\* ForwardCursor and how many Close calls are made on them before it returns

Cursors(opened, closed) == [opened |-> opened, closed |-> closed]

\* the Close calls of one crossReference
Closes(r) == Cardinality({ i \in 1..Len(r.cursor) : r.cursor[i] = "Close" })

\* Index.Walk: both buckets are looked up before the cursor is opened, and
\* the cursor goes to indexWalk
WalkCursors(foreignKey) ==
    IF ~canRead \/ ~srcExists \/ ~idxExists THEN Cursors(0, 0)
    ELSE Cursors(1, Closes(indexWalk(ForwardCursor(index, foreignKey, WalkPrefix(foreignKey)),
                                     source, "Walk")))

\* the second cursor of Verify, over the source bucket, opened after the walk
\* of the index returned a
VerifySourceCursors(fault, a) ==
    IF a.err # Nil \/ fault = "sourceCursor" THEN Cursors(0, 0)
    ELSE Cursors(1, Closes(missingIndexWalk(ForwardCursor(source, <<>>, <<>>),
                                            index, "VerifySource")))

\* the cursors of Verify, a being what the walk of the index returned and b
\* the cursors of the walk of the source
VerifyBoth(a, b) == Cursors(1 + b.opened, Closes(a) + b.closed)

\* Index.Verify: both buckets are looked up before the first cursor is opened
VerifyCursors(fault) ==
    IF ~srcExists \/ ~idxExists THEN Cursors(0, 0)
    ELSE VerifyBoth(indexWalk(ForwardCursor(index, <<>>, <<>>), source, "VerifyIndex"),
                    VerifySourceCursors(fault,
                        indexWalk(ForwardCursor(index, <<>>, <<>>), source, "VerifyIndex")))

\* phase 1 of Populate: the cursor over the source bucket is opened before the
\* index bucket is looked up, and goes to missingIndexWalk after it
PopulateCursors(srcEx, idxEx) ==
    IF ~srcEx THEN Cursors(0, 0)
    ELSE IF ~idxEx THEN Cursors(1, 0)
    ELSE Cursors(1, Closes(missingIndexWalk(ForwardCursor(source, <<>>, <<>>),
                                            index, "Populate")))

CursorsResult(of, c) ==
    [op |-> "cursors", of |-> of, opened |-> c.opened, closed |-> c.closed]

\* a store with or without each bucket, and an Index with or without its
\* read path
InitCursors ==
    /\ srcExists \in BOOLEAN
    /\ idxExists \in BOOLEAN
    /\ source \in IF srcExists THEN SourceBuckets ELSE { EmptyBucket }
    /\ index \in IF idxExists THEN IndexBuckets ELSE { EmptyBucket }
    /\ canRead \in BOOLEAN
    /\ populateBatchSize = 1
    /\ pop = PopIdle
    /\ res = NoRes

WalkReturns(foreignKey) ==
    /\ res = NoRes
    /\ res' = CursorsResult("Walk", WalkCursors(foreignKey))
    /\ UNCHANGED << source, index, srcExists, idxExists, canRead, populateBatchSize, pop >>

VerifyReturns(fault) ==
    /\ res = NoRes
    /\ res' = CursorsResult("Verify", VerifyCursors(fault))
    /\ UNCHANGED << source, index, srcExists, idxExists, canRead, populateBatchSize, pop >>

\* the read transaction of Populate returns
PopulateViewReturns ==
    /\ res = NoRes
    /\ res' = CursorsResult("Populate", PopulateCursors(srcExists, idxExists))
    /\ UNCHANGED << source, index, srcExists, idxExists, canRead, populateBatchSize, pop >>

NextCursors ==
    \/ \E fk \in FKs : WalkReturns(fk)
    \/ \E f \in Faults : VerifyReturns(f)
    \/ PopulateViewReturns

SpecCursors == InitCursors /\ [][NextCursors]_vars

----------------------------------------------------------------------------
\* what the properties speak of

\* the composite key a source record is expected under
ExpectedKey(pk) == indexKey(IndexSourceOn(source[pk]).fk, pk)

\* the source records with no entry under their expected key in bucket
Unindexed(bucket) == { pk \in DOMAIN source : ExpectedKey(pk) \notin DOMAIN bucket }

\* the pairs of a missing list whose key bucket does not hold
StillMissing(list, bucket) ==
    LET Absent(pair) == pair[1] \notin DOMAIN bucket IN SelectSeq(list, Absent)

\* bucket with the pairs of list put into it, a later pair over an earlier one
WithEntries(bucket, list) ==
    LET keys == { list[i][1] : i \in 1..Len(list) }
        Last(k) == CHOOSE i \in 1..Len(list) :
                      list[i][1] = k /\ \A j \in (i + 1)..Len(list) : list[j][1] # k
    IN  [k \in DOMAIN bucket \cup keys |-> IF k \in keys THEN list[Last(k)][2] ELSE bucket[k]]

PopulateSucceeded == pop.pc = "done" /\ pop.err = Nil

\* C1: while canRead is false a Walk returns nil, calls visit for nothing and
\* makes no store access, whatever the two buckets hold and whether or not
\* they exist.
C1_WalkGated ==
    (res.op = "Walk" /\ ~canRead) =>
        /\ res.err = Nil
        /\ res.visited = <<>>
        /\ res.calls = 0

\* a gated Walk over an index entry of its foreign key whose source record is
\* missing
C1_Witness ==
    /\ res.op = "Walk"
    /\ ~canRead
    /\ idxExists
    /\ \E key \in DOMAIN index : HasPrefix(key, res.fk) /\ index[key] \notin DOMAIN source

\* C2: a Populate that succeeds returns the number of source records whose
\* expected entry was absent when it began and leaves every source record with
\* its expected entry; a Populate that follows a successful one at once returns
\* 0 and leaves the index bucket as it was.
C2_PopulateCount ==
    PopulateSucceeded =>
        /\ pop.n = Cardinality(Unindexed(pop.idx0))
        /\ Unindexed(index) = {}
        /\ pop.prev.how = "ok" => (pop.n = 0 /\ pop.k = 0 /\ index = pop.idx0)

\* a Populate that returned 0 right after one that had returned 2
C2_Witness ==
    /\ PopulateSucceeded
    /\ pop.prev.how = "ok"
    /\ pop.prev.n = 2
    /\ pop.n = 0

\* C3: when write transaction k of a Populate fails, the index bucket holds
\* what it held when the call began and the entries of transactions 1..k-1,
\* nothing else; a Populate that follows at once and succeeds writes the
\* entries the failed call left that are still missing, no other, and leaves
\* every source record with its expected entry.
C3_PopulateResumable ==
    /\ (pop.pc = "done" /\ pop.err # Nil /\ pop.k > 0) =>
          index = WithEntries(pop.idx0, SubSeq(pop.all, 1, (pop.k - 1) * populateBatchSize))
    /\ (PopulateSucceeded /\ pop.prev.how = "batchFailed") =>
          /\ pop.all = StillMissing(pop.prev.rest, pop.idx0)
          /\ index = WithEntries(pop.idx0, pop.all)
          /\ Unindexed(index) = {}

\* a Populate that wrote an entry after one whose second transaction had failed
C3_Witness ==
    /\ PopulateSucceeded
    /\ pop.prev.how = "batchFailed"
    /\ pop.prev.k = 2
    /\ pop.n = 1
    /\ Cardinality(DOMAIN index) = 3

----------------------------------------------------------------------------
\* the index entry of the pair (fk, pk): its composite key, holding pk
HasEntry(fk, pk) ==
    indexKey(fk, pk) \in DOMAIN index /\ index[indexKey(fk, pk)] = pk

\* the foreign key of the entry under key: what stands before '/' and the
\* primary key the entry holds
EntryFk(key) == SubSeq(key, 1, Len(key) - Len(index[key]) - 1)

\* the list a map of an IndexDiff holds for fk
ListOf(m, fk) == IF fk \in DOMAIN m THEN m[fk] ELSE <<>>

Elements(list) == { list[i] : i \in 1..Len(list) }

WalkRan == res.op = "Walk" /\ canRead /\ srcExists /\ idxExists

VerifySucceeded == res.op = "Verify" /\ res.err = Nil

\* C4: with canRead true and every index entry resolving to a source record,
\* Walk(foreignKey) calls visit once for each primary key that has an entry
\* for the pair (foreignKey, pk), with pk and the value stored under pk, and
\* for no other primary key.
C4_WalkVisitsOwnEntries ==
    (WalkRan /\ \A key \in DOMAIN index : index[key] \in DOMAIN source) =>
        LET own == { pk \in PKs : HasEntry(res.fk, pk) }
            Calls(pk) == { i \in 1..Len(res.visited) : res.visited[i].a = pk }
        IN  /\ \A pk \in own :
                 /\ Cardinality(Calls(pk)) = 1
                 /\ \A i \in Calls(pk) : res.visited[i].b = source[pk]
            /\ \A i \in 1..Len(res.visited) : res.visited[i].a \in own

\* C5: the primary keys one Walk hands to visit ascend in byte order.
C5_WalkAscending ==
    res.op = "Walk" =>
        \A i, j \in 1..Len(res.visited) :
            i < j => LessBytes(res.visited[i].a, res.visited[j].a)

\* C6: with canRead true, a Walk that reaches an entry whose primary key has
\* no source record returns ErrKeyNotFound naming that entry's pair, having
\* called visit for the entries before it and for none after.
C6_WalkFailsOnDangling ==
    LET rows == ForwardCursor(index, res.fk, WalkPrefix(res.fk))
        Dangling(i) == rows[i][2] \notin DOMAIN source
    IN  (WalkRan /\ \E i \in 1..Len(rows) : Dangling(i)) =>
            LET first == CHOOSE i \in 1..Len(rows) :
                            Dangling(i) /\ \A j \in 1..(i - 1) : ~Dangling(j)
            IN  /\ res.err.kind = "ErrKeyNotFound"
                /\ res.err.pk = rows[first][2]
                /\ indexKey(res.err.fk, res.err.pk) = rows[first][1]
                /\ Len(res.visited) = first - 1
                /\ \A j \in 1..(first - 1) : res.visited[j].a = rows[j][2]

\* C7: after a successful Verify, MissingFromIndex[fk] lists, once each and in
\* ascending order, the primary keys of the source records whose derived
\* foreign key is fk and whose composite key the index bucket lacks.
C7_MissingFromIndexExact ==
    VerifySucceeded =>
        \A fk \in FKs \cup DOMAIN res.diff.MissingFromIndex :
            ListOf(res.diff.MissingFromIndex, fk) =
                SortKeys({ pk \in DOMAIN source :
                             /\ IndexSourceOn(source[pk]).fk = fk
                             /\ indexKey(fk, pk) \notin DOMAIN index })

\* C8: after a successful Verify, MissingFromSource[fk] lists, once each, the
\* primary keys of the index entries of fk whose primary key has no source
\* record.
C8_MissingFromSourceExact ==
    VerifySucceeded =>
        \A fk \in FKs \cup DOMAIN res.diff.MissingFromSource :
            LET list == ListOf(res.diff.MissingFromSource, fk)
                stale == { key \in DOMAIN index :
                             EntryFk(key) = fk /\ index[key] \notin DOMAIN source }
            IN  /\ Elements(list) = { index[key] : key \in stale }
                /\ Len(list) = Cardinality(stale)

\* C9: after a successful Verify, Corrupt() holds a foreign key exactly when
\* the index bucket holds the entries of some but not all of the source
\* records that derive it.
C9_CorruptExact ==
    VerifySucceeded =>
        Corrupt(res.diff) =
            { fk \in FKs :
                LET expected == { pk \in DOMAIN source : IndexSourceOn(source[pk]).fk = fk }
                IN  /\ \E pk \in expected : indexKey(fk, pk) \in DOMAIN index
                    /\ \E pk \in expected : indexKey(fk, pk) \notin DOMAIN index }

\* C10: a Verify that returns an error returns an empty IndexDiff.
C10_VerifyAllOrNothing ==
    (res.op = "Verify" /\ res.err # Nil) => res.diff = EmptyDiff

----------------------------------------------------------------------------
\* C11: a step that returns from Walk or from Verify, with an error or without,
\* leaves the source bucket and the index bucket as they were: their entries
\* and whether they exist.
C11_ReadOnly ==
    [][res'.op \in { "Walk", "Verify" } =>
          /\ source' = source
          /\ index' = index
          /\ srcExists' = srcExists
          /\ idxExists' = idxExists]_vars

\* a Verify that failed after it had found an index entry without its source
\* record
C11_Witness ==
    /\ res.op = "Verify"
    /\ res.err # Nil
    /\ res.diff.MissingFromSource # << >>
    /\ \E key \in DOMAIN index : index[key] \notin DOMAIN source

\* C12: the index bucket holds at most one entry for a pair; an Insert of a
\* pair that has its entry leaves the bucket as it was; a Delete of a pair
\* that has no entry leaves the bucket as it was.
C12_InsertDeleteIdempotent ==
    [][\A fk \in FKs, pk \in PKs :
          /\ Cardinality({ key \in DOMAIN index :
                             key = indexKey(fk, pk) /\ index[key] = pk }) <= 1
          /\ (HasEntry(fk, pk) /\ Insert(fk, pk)) => index' = index
          /\ (~HasEntry(fk, pk) /\ Delete(fk, pk)) => index' = index]_vars

\* C13: splitting the composite key of a pair gives the pair back, and no
\* other pair has the same composite key.
C13_KeyRoundTrip ==
    /\ res.op = "indexKeyParts" =>
          /\ res.parts.err = Nil
          /\ res.parts.fk = res.fk
          /\ res.parts.pk = res.pk
    /\ res.op = "indexKey" =>
          \A fk \in Keys, pk \in Keys :
              indexKey(fk, pk) = res.key => (fk = res.fk /\ pk = res.pk)

\* C14: Initialize goes on to Populate exactly when its transaction succeeded
\* and the store is an IndexPopulatorStore whose AutoPopulateIndex reports
\* true; that Populate finds the index bucket made, and its error is what
\* Initialize returns.  In every other case Initialize leaves the entries of
\* the index bucket as they were and no write transaction of Populate follows.
C14_InitializePopulates ==
    /\ [][res'.op = "Initialize" =>
            \A c \in Capabilities, f \in { "none", "update" } :
                Initialize(c, f) =>
                    /\ (pop'.pc # "idle") <=> (c = "true" /\ f = "none")
                    /\ ~(c = "true" /\ f = "none") => index' = index]_vars
    /\ [](res.op = "Initialize" =>
            IF res.populate
            THEN /\ idxExists
                 /\ pop.pc = "done" =>
                       /\ InitializeReturns(res, pop) = pop.err
                       /\ srcExists => pop.err # ErrBucketNotFound
            ELSE /\ pop.pc = "idle"
                 /\ InitializeReturns(res, pop) \in { Nil, ErrStore })

\* an Initialize that made the index bucket and whose Populate wrote the
\* entries of two records
C14_Witness ==
    /\ res.op = "Initialize"
    /\ res.populate
    /\ res.created
    /\ PopulateSucceeded
    /\ pop.n = 2
    /\ Cardinality(DOMAIN index) = 2

\* C15: a Populate whose scan meets a source record that IndexSourceOn fails
\* on returns that error and the count 0, begins no write transaction and
\* leaves the index bucket as it was, also when the scan had found records
\* missing before it.
C15_DerivationAborts ==
    (/\ pop.pc = "done"
     /\ srcExists
     /\ idxExists
     /\ \E pk \in DOMAIN source : IndexSourceOn(source[pk]).err # Nil) =>
        /\ pop.err = ErrDerivation
        /\ pop.n = 0
        /\ pop.k = 0
        /\ index = pop.idx0

\* a Populate that failed on a record after it had found another one missing
C15_Witness ==
    /\ pop.pc = "done"
    /\ pop.err = ErrDerivation
    /\ pop.missing # << >>
    /\ index = pop.idx0

----------------------------------------------------------------------------
\* the calls of crossReference on its cursor
CursorCalls == res.out.cursor

Count(calls, name) == Cardinality({ i \in 1..Len(calls) : calls[i] = name })

\* the row whose pass returned from the loop, when one did: a pass begins
\* with a Next, and only the Next that found no row is followed by Err
ReturnedInRow == Count(CursorCalls, "Err") = 0

\* C16: on every return, by the cursor running out, by the mapping function
\* failing, by Get failing, by the value function failing, on the last row
\* too, crossReference has called Close on its cursor once, and that as its
\* last call on it.
C16_ClosedOnce ==
    res.op = "crossReference" =>
        /\ Count(CursorCalls, "Close") = 1
        /\ CursorCalls[Len(CursorCalls)] = "Close"

\* a return from the value function on the last of two rows: the source
\* record of the second index entry is missing
C16_Witness ==
    /\ res.op = "crossReference"
    /\ res.rows = 2
    /\ ReturnedInRow
    /\ Count(CursorCalls, "Next") = 2
    /\ res.out.err.kind = "ErrKeyNotFound"
    /\ Count(CursorCalls, "Close") = 1

\* C17: crossReference returns the error its loop ended with (of the mapping
\* function, of the value function, or cursor.Err() once the rows have run
\* out) also when Close fails; it returns the error of Close when the loop
\* ended with none; it returns nil only when neither failed.
C17_ErrorPriority ==
    res.op = "crossReference" =>
        LET out == res.out
            failedNext == res.io.next \in 1..(res.rows + 1)
            closeFails == res.io.close
        IN  /\ out.loop # Nil => out.err = out.loop
            /\ (out.loop = Nil /\ closeFails) => out.err = ErrClose
            /\ out.err = Nil <=> (out.loop = Nil /\ ~closeFails)
            /\ ReturnedInRow => out.loop \notin { Nil, ErrCursor, ErrClose }
            /\ ~ReturnedInRow => out.loop = IF failedNext THEN ErrCursor ELSE Nil
            /\ out.cerr = IF closeFails THEN ErrClose ELSE Nil

\* a failed Get on the last of two rows, and then a failed Close
C17_Witness ==
    /\ res.op = "crossReference"
    /\ res.rows = 2
    /\ res.io.get = 2
    /\ res.io.close
    /\ res.out.err = ErrGet
    /\ res.out.cerr = ErrClose

----------------------------------------------------------------------------
\* the least number of batches of b entries that hold m entries
Ceil(m, b) == (m + b - 1) \div b

\* C18: a Populate that succeeds has begun ceil(m/b) write transactions for
\* the m entries its scan found missing, none for m = 0; each transaction
\* takes the next entries of the list in scan order, b of them unless it is
\* the last, which takes the at most b that are left, and one that commits
\* has put exactly those.
C18_Batches ==
    /\ [](PopulateSucceeded => pop.k = Ceil(Len(pop.all), populateBatchSize))
    /\ [](pop.pc = "batch" =>
            pop.missing = SubSeq(pop.all, pop.k * populateBatchSize + 1, Len(pop.all)))
    /\ [][(pop.pc = "batch" /\ pop'.k = pop.k + 1) =>
            LET taken == Len(pop.missing) - Len(pop'.missing)
                batch == SubSeq(pop.all, pop.committed + 1, pop.committed + taken)
            IN  /\ taken \in 1..populateBatchSize
                /\ pop'.missing # << >> => taken = populateBatchSize
                /\ pop'.missing = SubSeq(pop.missing, taken + 1, Len(pop.missing))
                /\ pop'.err = Nil =>
                      /\ index' = WithEntries(index, batch)
                      /\ pop'.committed = pop.committed + taken]_vars

\* three entries written by transactions of two: a full one and a last one
\* of one entry
C18_Witness ==
    /\ PopulateSucceeded
    /\ Len(pop.all) = 3
    /\ populateBatchSize = 2
    /\ pop.k = 2
    /\ pop.n = 3

----------------------------------------------------------------------------
\* C19: every entry of the index bucket holds the primary key its composite
\* key was built from, its key being a foreign key, '/' and that primary key;
\* when that foreign key holds no '/', the entry holds what follows the first
\* '/' of its key.
C19_ValueIsPrimaryKey ==
    \A key \in DOMAIN index :
        /\ index[key] \in PKs
        /\ \E fk \in FKs : key = indexKey(fk, index[key])
        /\ FirstSlash(EntryFk(key)) = 0 => indexKeyParts(key).pk = index[key]

\* entries for a foreign key with '/' and for one without, after a Populate
\* that wrote one
C19_Witness ==
    /\ PopulateSucceeded
    /\ pop.n >= 1
    /\ \E key \in DOMAIN index : FirstSlash(EntryFk(key)) # 0
    /\ \E key \in DOMAIN index : FirstSlash(EntryFk(key)) = 0 /\ FirstSlash(index[key]) # 0

----------------------------------------------------------------------------
\* C20: with every write of a source record paired with its Insert and Delete
\* and a Populate running beside, every entry of the index bucket is that of
\* a source record that exists and of the foreign key the record derives.
C20_ReferentialIntegrity ==
    \A key \in DOMAIN index :
        /\ index[key] \in DOMAIN source
        /\ key = ExpectedKey(index[key])

----------------------------------------------------------------------------
\* C22: the count a Populate returns is the number of entries its committed
\* write transactions put, also when its last transaction failed.
C22_CountIsCommitted ==
    pop.pc = "done" => pop.n = pop.committed

\* C23: after a successful Verify every primary key listed in
\* PresentInIndex[fk] has the index entry of the pair (fk, pk), and no pair is
\* listed in both PresentInIndex and MissingFromIndex.
C23_PresentHasEntry ==
    VerifySucceeded =>
        \A fk \in DOMAIN res.diff.PresentInIndex :
            \A pk \in Elements(res.diff.PresentInIndex[fk]) :
                /\ HasEntry(fk, pk)
                /\ pk \notin Elements(ListOf(res.diff.MissingFromIndex, fk))

\* C24: whatever the batch size, every pass of the loop of phase 2 leaves the
\* missing list shorter than it found it, and no pass ends other than by
\* going on to the next or by Populate returning.
C24_PopulateTerminates ==
    [][(pop.pc = "batch" /\ pop' # pop) =>
          /\ Len(pop'.missing) < Len(pop.missing)
          /\ pop'.pc \in { "batch", "done" }]_vars

\* C21: when Walk, Verify or Populate returns, Close has been called once on
\* every cursor it opened: as many Close calls as cursors.
C21_CursorsClosed ==
    res.op = "cursors" => res.closed = res.opened

====
